---- MODULE Spec2Model ----
(***************************************************************************)
(* Dataloader (src/src/dataloader.ts): a read-through cache in front of    *)
(* GitService, refreshed by a debounced bulk reload that file-system       *)
(* change notifications schedule, and reset when the active repository     *)
(* changes.                                                                *)
(*                                                                         *)
(* JavaScript runs the handlers on one thread: every action below is one   *)
(* run-to-completion segment of a handler, from its entry or from the      *)
(* resumption of an await to the next await or the return.                 *)
(*                                                                         *)
(* Values the live source returns are kept with their provenance: the      *)
(* repository they were fetched from (src) and the generation of that      *)
(* repository's content at the time of the fetch (gen).  The code stores   *)
(* the bare value v; src and gen are history information used only by the  *)
(* properties.                                                             *)
(***************************************************************************)
EXTENDS Integers, Sequences, FiniteSets, TLC

VARIABLES
    _repo,          \* Dataloader._repo?.root, or Undefined
    _fsWatcher,     \* root the live file-system watcher reports on, or Undefined
    _updating,      \* Dataloader._updating
    _updateDelay,   \* Dataloader._updateDelay: id of the timer last armed, 0 once it fired
    _cache,         \* Dataloader._cache: branch, commits, logEntries, counts
    timers,         \* armed quiet-period timers of _updateCaches
    tasks,          \* suspended async continuations (awaiting the live source)
    gen,            \* generation of the repositories' content (the live source's state)
    ret             \* the value a query call has just returned, NoRet once the caller took it

vars == <<_repo, _fsWatcher, _updating, _updateDelay, _cache, timers, tasks, gen, ret>>

(***************************************************************************)
(* Bounds of the model                                                     *)
(***************************************************************************)
MaxGen == 1         \* content changes of the repositories
MaxTasks == 2       \* continuations suspended at the same time
MaxBurst == 2       \* cap of the per-timer count of collapsed notifications
MaxCommits == 3     \* length of the commit lists of the neighbour lookups

(***************************************************************************)
(* Program constants                                                       *)
(***************************************************************************)
logEntriesCount == 1200
logEntriesMax == 5
countsMax == 100

Undefined == "undefined"
Repos == {"A", "B"}

Min(a, b) == IF a < b THEN a ELSE b
Max(a, b) == IF a > b THEN a ELSE b

\* A value of the live source with its provenance.
Val(src, g, v) == [src |-> src, gen |-> g, v |-> v]

\* Optional parameters (TypeScript `x?: T`).
None == [some |-> FALSE, v |-> ""]
\* An absent optional number (line?: number)
NoLine == [some |-> FALSE, v |-> 0]
Some(x) == [some |-> TRUE, v |-> x]

(***************************************************************************)
(* Cache keys                                                              *)
(***************************************************************************)
\* `${branch},${author}`
countKey(branch, author) == branch \o "," \o author

\* `${branch},${stash ? '1' : ''},${file ?? ''},${line ?? ''},${author ?? ''}`
logEntryKey(branch, stash, file, line, author) ==
    branch \o ","
           \o (IF stash.some /\ stash.v = TRUE THEN "1" ELSE "") \o ","
           \o (IF file.some THEN file.v ELSE "") \o ","
           \o (IF line.some THEN ToString(line.v) ELSE "") \o ","
           \o (IF author.some THEN author.v ELSE "")

(***************************************************************************)
(* LRUCache (lru-cache): a sequence of entries [k, v], least recently used *)
(* first.  get promotes the key, set promotes it and evicts the least      *)
(* recently used entry when a new key would exceed max.                    *)
(***************************************************************************)
LRUHas(c, key) == \E i \in 1..Len(c) : c[i].k = key
LRUIndex(c, key) == CHOOSE i \in 1..Len(c) : c[i].k = key
LRUPeek(c, key) == c[LRUIndex(c, key)].v
LRURemove(c, key) == SelectSeq(c, LAMBDA e : e.k # key)

\* The cache after get(key): the entry becomes the most recently used one.
LRUGet(c, key) ==
    IF LRUHas(c, key) THEN Append(LRURemove(c, key), c[LRUIndex(c, key)]) ELSE c

\* The cache after set(key, val).
LRUSet(c, max, key, val) ==
    LET rest == LRURemove(c, key)
        kept == IF Len(rest) >= max THEN Tail(rest) ELSE rest
    IN  Append(kept, [k |-> key, v |-> val])

LRUKeys(c) == {c[i].k : i \in 1..Len(c)}

(***************************************************************************)
(* Cache                                                                   *)
(***************************************************************************)
\* Cache.clear(), and the fields' initial values
clear ==
    [branch     |-> Val(Undefined, 0, ""),
     commits    |-> Val(Undefined, 0, <<>>),
     logEntries |-> <<>>,
     counts     |-> <<>>]

\* A lookup that leaves the recency order alone (peek).
logEntriesPeek(key) == _cache.logEntries

\* this._cache.logEntries.get(key) / set(key, v)
logEntriesGet(key) == LRUGet(_cache.logEntries, key)
logEntriesSet(c, key, v) == LRUSet(c, logEntriesMax, key, v)
\* this._cache.counts.get(key) / set(key, v)
countsGet(key) == LRUGet(_cache.counts, key)
countsSet(c, key, v) == LRUSet(c, countsMax, key, v)

(***************************************************************************)
(* The live source (GitService), which the specification leaves outside    *)
(* the cache: repository A has a long history, repository B starts empty   *)
(* and both gain one commit per content generation.  The handlers never    *)
(* relate the answers of two different calls, and the model keeps the      *)
(* commit list short whatever the reported totals are.                     *)
(***************************************************************************)
\* gitService.getCurrentBranch(repo)
SrcBranch(repo, g) == "main"

\* gitService.getCommits(repo, branch): commit ids, newest first
SrcCommits(repo, g) ==
    IF repo = "A"
    THEN [i \in 1..(2 + g) |-> "a" \o ToString(2 + g - i)]
    ELSE [i \in 1..g |-> "b" \o ToString(g - i)]

\* The filter parameters of a log query.
Filter(branch, isStash, file, line, author) ==
    [branch |-> branch, isStash |-> isStash, file |-> file, line |-> line, author |-> author]

\* Number of commits the source has for a filter: two commits touch a given
\* line, the author's commits are few.
SrcTotal(repo, f, g) ==
    IF f.line.some THEN 2
    ELSE IF repo = "A"
    THEN (IF f.author.some THEN 1 + g ELSE logEntriesCount + g)
    ELSE (IF f.author.some THEN 0 ELSE g)

\* gitService.getCommitsCount(repo, branch, author)
SrcCount(repo, branch, author, g) ==
    SrcTotal(repo, Filter(branch, None, None, NoLine, author), g)

\* A list of log entries is kept as the window [from, from+len) of the
\* history the source had for the key in generation gen of repository src.
\* Array.prototype.slice(start, end) of such a list:
slice(d, start, end) ==
    LET lo == Min(start, d.len)
        hi == Max(lo, Min(end, d.len))
    IN  [d EXCEPT !.from = IF hi = lo THEN 0 ELSE d.from + lo, !.len = hi - lo]

\* gitService.getLogEntries(repo, express, start, count, branch, isStash, file, line, author)
SrcLogEntries(repo, g, f, start, count) ==
    slice([src |-> repo, gen |-> g,
           key |-> logEntryKey(f.branch, f.isStash, f.file, f.line, f.author),
           from |-> 0, len |-> SrcTotal(repo, f, g)],
          start, start + count)

\* A query: the filter and the window.
Query(start, count, f) == [start |-> start, count |-> count, f |-> f]

NoQuery == Query(0, 0, Filter("", None, None, NoLine, None))

(***************************************************************************)
(* Suspended continuations                                                 *)
(***************************************************************************)
\* type "reload": the timer callback of _updateCaches, pc "branch" (awaiting
\*   getCurrentBranch) then "all" (awaiting Promise.all)
\* type "log": getLogEntries awaiting its live fetch
\* type "warm": the setTimeout(..., 0) callback of getLogEntries
\* type "count": getCommitsCount awaiting its live fetch
\* g0: the generation when the awaited fetch was issued
\* switched: history, the active repository changed since the task began
Task(id, type, repo, pc, q, g0) ==
    [id |-> id, type |-> type, repo |-> repo, pc |-> pc, q |-> q, g0 |-> g0,
     branch |-> Val(Undefined, 0, ""), switched |-> FALSE]

NewTaskId == CHOOSE i \in 1..(Cardinality(tasks) + 1) : \A t \in tasks : t.id # i

\* What a query call returned: the operation and its arguments, whether the
\* live source was called, and the value.
Ret(op, repo, q, ref, live, val) ==
    [op |-> op, repo |-> repo, q |-> q, ref |-> ref, live |-> live, val |-> val]

NoRet == Ret("none", Undefined, NoQuery, "", FALSE, <<>>)

\* repo.root of an absent repository (lines 89 and 154): the call rejects with
\* a TypeError instead of returning a list or a count.
TypeError == "TypeError"
ThrownEntries == [src |-> TypeError, gen |-> 0, key |-> "", from |-> 0, len |-> 0]
ThrownCount == Val(TypeError, 0, 0)

\* No returned value is waiting for its caller: the handlers run one at a time.
Ready == ret.op = "none"

\* The caller takes the value the call returned.
Return ==
    /\ ~Ready
    /\ ret' = NoRet
    /\ UNCHANGED <<_repo, _fsWatcher, _updating, _updateDelay, _cache, timers, tasks, gen>>

(***************************************************************************)
(* _useCache                                                               *)
(***************************************************************************)
_useCache(repo) ==
    IF repo # _repo THEN FALSE
    ELSE IF _updating THEN FALSE
    ELSE TRUE

(***************************************************************************)
(* Timers of _updateCaches                                                 *)
(***************************************************************************)
\* clearTimeout(handle): a handle of a fired or cleared timer clears nothing
clearTimeout(ts, h) == {t \in ts : t.id # h}

NewTimerId(ts) == CHOOSE i \in 1..(Cardinality(ts) + 1) : \A t \in ts : t.id # i

\* burst (history): the notifications for repo this timer stands for
BurstAfter(ts, h, repo) ==
    IF \E t \in ts : t.id = h /\ t.repo = repo
    THEN Min((CHOOSE t \in ts : t.id = h).burst + 1, MaxBurst)
    ELSE 1

\* Rearm without the clearTimeout of line 214.
RearmNoClear(ts, h, repo) ==
    [timers |-> ts \cup {[id |-> NewTimerId(ts), repo |-> repo, burst |-> 1]},
     id |-> NewTimerId(ts)]

\* clearTimeout(this._updateDelay); this._updateDelay = setTimeout(..., 1000)
\* The armed timers and the new handle.
Rearm(ts, h, repo) ==
    LET kept == clearTimeout(ts, h)
        id   == NewTimerId(kept)
    IN  [timers |-> kept \cup {[id |-> id, repo |-> repo, burst |-> BurstAfter(ts, h, repo)]},
         id |-> id]

\* _updateCaches(repo, uri), with ts the timers armed when it is entered
_updateCaches(repo, ts) ==
    /\ _updating' = TRUE
    /\ timers' = Rearm(ts, _updateDelay, repo).timers
    /\ _updateDelay' = Rearm(ts, _updateDelay, repo).id

(***************************************************************************)
(* Repository switch                                                       *)
(***************************************************************************)
\* A switch that does not compare the roots first.
updateRepoNoCompare(repo) ==
    /\ Ready
    /\ ret' = NoRet
    /\ _repo' = repo
    /\ _fsWatcher' = repo
    /\ _cache' = clear
    /\ _updateCaches(repo, clearTimeout(timers, _updateDelay))
    /\ tasks' = {[t EXCEPT !.switched = TRUE] : t \in tasks}
    /\ UNCHANGED gen

updateRepo(repo) ==
    /\ Ready
    /\ ret' = NoRet
    /\ IF _repo = repo
       THEN UNCHANGED <<_repo, _fsWatcher, _updating, _updateDelay, _cache, timers, tasks, gen>>
       ELSE /\ _repo' = repo
            /\ _fsWatcher' = repo
            /\ _cache' = clear
            /\ _updateCaches(repo, clearTimeout(timers, _updateDelay))
            /\ tasks' = {[t EXCEPT !.switched = TRUE] : t \in tasks}
            /\ UNCHANGED gen

(***************************************************************************)
(* Refresh scheduler                                                       *)
(***************************************************************************)
\* onDidChange / onDidCreate / onDidDelete of the watcher; bump: the
\* notification reports a change that altered what the source answers
FsEvent(bump) ==
    /\ Ready
    /\ _fsWatcher # Undefined
    /\ bump => gen < MaxGen
    /\ gen' = IF bump THEN gen + 1 ELSE gen
    /\ _updateCaches(_fsWatcher, timers)
    /\ ret' = NoRet
    /\ UNCHANGED <<_repo, _fsWatcher, _cache, tasks>>

\* The quiet period of timer t ends: the callback runs to its first await.
TimerFire(t) ==
    /\ Ready
    /\ t \in timers
    /\ Cardinality(tasks) < MaxTasks
    /\ timers' = timers \ {t}
    /\ _updateDelay' = IF _updateDelay = t.id THEN 0 ELSE _updateDelay
    /\ tasks' = tasks \cup {Task(NewTaskId, "reload", t.repo, "branch", NoQuery, gen)}
    /\ ret' = NoRet
    /\ UNCHANGED <<_repo, _fsWatcher, _updating, _cache, gen>>

\* getCurrentBranch resolves: the callback issues the three fetches of Promise.all.
ReloadBranch(t) ==
    /\ Ready
    /\ t \in tasks /\ t.type = "reload" /\ t.pc = "branch"
    /\ \E g \in t.g0..gen :
         tasks' = (tasks \ {t}) \cup
                  {[t EXCEPT !.pc = "all", !.g0 = gen,
                             !.branch = Val(t.repo, g, SrcBranch(t.repo, g))]}
    /\ ret' = NoRet
    /\ UNCHANGED <<_repo, _fsWatcher, _updating, _updateDelay, _cache, timers, gen>>

\* The cache a completed reload of repo makes of cache c: lines 231-234.
ReloadWrite(c, repo, branch, g) ==
    [branch     |-> branch,
     commits    |-> Val(repo, g, SrcCommits(repo, g)),
     counts     |-> countsSet(c.counts, countKey(branch.v, ""),
                              Val(repo, g, SrcCount(repo, branch.v, None, g))),
     logEntries |-> logEntriesSet(c.logEntries,
                                  logEntryKey(branch.v, None, None, NoLine, None),
                                  SrcLogEntries(repo, g, Filter(branch.v, None, None, NoLine, None),
                                                0, logEntriesCount))]

\* The repository check of the completing reload: line 225.
ReloadStale(t) == _repo # t.repo

\* Promise.all resolves.
ReloadComplete(t) ==
    /\ Ready
    /\ t \in tasks /\ t.type = "reload" /\ t.pc = "all"
    /\ tasks' = tasks \ {t}
    /\ IF ReloadStale(t)
       THEN UNCHANGED <<_cache, _updating>>
       ELSE /\ \E g \in t.g0..gen : _cache' = ReloadWrite(_cache, t.repo, t.branch, g)
            /\ _updating' = FALSE
    /\ ret' = NoRet
    /\ UNCHANGED <<_repo, _fsWatcher, _updateDelay, timers, gen>>

(***************************************************************************)
(* Query gate: getLogEntries                                               *)
(***************************************************************************)
\* this._cache.logEntryKey(branch, isStash ?? false, file?.fsPath, line, author)
QueryKey(q) ==
    logEntryKey(q.f.branch, Some(q.f.isStash.some /\ q.f.isStash.v = TRUE),
                q.f.file, q.f.line, q.f.author)

\* CacheAnswers without the test of line 96.
CacheAnswersNoShortCircuit(cache, start, count) == start + count < cache.len

\* Lines 95-104: the cached entry answers the window [start, start+count).
CacheAnswers(cache, start, count) ==
    \/ cache.len < logEntriesCount
    \/ start + count < cache.len

\* The call up to its return or its await of the live fetch.
getLogEntries(repo, q) ==
    /\ Ready
    /\ IF repo = Undefined
       THEN /\ ret' = Ret("getLogEntries", repo, q, "", FALSE, ThrownEntries)
            /\ UNCHANGED <<_repo, _fsWatcher, _updating, _updateDelay, _cache, timers, tasks, gen>>
       ELSE IF ~_useCache(repo)
       THEN /\ ret' = Ret("getLogEntries", repo, q, "", TRUE,
                          SrcLogEntries(repo, gen, q.f, q.start, q.count))
            /\ UNCHANGED <<_repo, _fsWatcher, _updating, _updateDelay, _cache, timers, tasks, gen>>
       ELSE /\ _cache' = [_cache EXCEPT !.logEntries = logEntriesGet(QueryKey(q))]
            /\ IF /\ LRUHas(_cache.logEntries, QueryKey(q))
                  /\ CacheAnswers(LRUPeek(_cache.logEntries, QueryKey(q)), q.start, q.count)
               THEN /\ ret' = Ret("getLogEntries", repo, q, "", FALSE,
                                  slice(LRUPeek(_cache.logEntries, QueryKey(q)),
                                        q.start, q.start + q.count))
                    /\ UNCHANGED tasks
               ELSE /\ Cardinality(tasks) < MaxTasks
                    /\ tasks' = tasks \cup {Task(NewTaskId, "log", repo, "fetch", q, gen)}
                    /\ ret' = NoRet
            /\ UNCHANGED <<_repo, _fsWatcher, _updating, _updateDelay, timers, gen>>

\* A rule that stores whatever the first-page call fetched.
StoreRuleOwnSlice(q, entries) == IF q.start = 0 THEN "store" ELSE "nothing"

\* Lines 119-124: what the resumed call does with the entries it fetched.
StoreRule(q, entries) ==
    IF q.start = 0
    THEN IF q.count >= logEntriesCount /\ entries.len < logEntriesCount THEN "store"
         ELSE IF q.count < logEntriesCount THEN "warm"
         ELSE "nothing"
    ELSE "nothing"

\* The live fetch of a suspended getLogEntries resolves: lines 117-150.
LogFetched(t) ==
    /\ Ready
    /\ t \in tasks /\ t.type = "log"
    /\ \E g \in t.g0..gen :
         LET entries == SrcLogEntries(t.repo, g, t.q.f, t.q.start, t.q.count)
             rule    == StoreRule(t.q, entries)
         IN  /\ ret' = Ret("getLogEntries", t.repo, t.q, "", TRUE, entries)
             /\ _cache' = IF rule = "store"
                          THEN [_cache EXCEPT !.logEntries =
                                    logEntriesSet(_cache.logEntries, QueryKey(t.q), entries)]
                          ELSE _cache
             /\ tasks' = IF rule = "warm"
                         THEN (tasks \ {t}) \cup
                              {[t EXCEPT !.type = "warm", !.pc = "timer", !.g0 = gen]}
                         ELSE tasks \ {t}
    /\ UNCHANGED <<_repo, _fsWatcher, _updating, _updateDelay, timers, gen>>

\* The setTimeout(..., 0) callback has fetched the first page: lines 126-145.
WarmComplete(t) ==
    /\ Ready
    /\ t \in tasks /\ t.type = "warm"
    /\ \E g \in t.g0..gen :
         _cache' = [_cache EXCEPT !.logEntries =
                        logEntriesSet(_cache.logEntries, QueryKey(t.q),
                                      SrcLogEntries(t.repo, g, t.q.f, 0, logEntriesCount))]
    /\ tasks' = tasks \ {t}
    /\ ret' = NoRet
    /\ UNCHANGED <<_repo, _fsWatcher, _updating, _updateDelay, timers, gen>>

(***************************************************************************)
(* Query gate: getCommitsCount                                             *)
(***************************************************************************)
\* this._cache.countKey(branch, author ?? '')
CountQueryKey(q) == countKey(q.f.branch, IF q.f.author.some THEN q.f.author.v ELSE "")

\* Lines 159-162: `if (count)` on the looked-up number.
CountHit(key) ==
    /\ LRUHas(_cache.counts, key)
    /\ LRUPeek(_cache.counts, key).v # 0

getCommitsCount(repo, q) ==
    /\ Ready
    /\ IF repo = Undefined
       THEN /\ ret' = Ret("getCommitsCount", repo, q, "", FALSE, ThrownCount)
            /\ UNCHANGED <<_repo, _fsWatcher, _updating, _updateDelay, _cache, timers, tasks, gen>>
       ELSE IF ~_useCache(repo)
       THEN /\ ret' = Ret("getCommitsCount", repo, q, "", TRUE,
                          Val(repo, gen, SrcCount(repo, q.f.branch, q.f.author, gen)))
            /\ UNCHANGED <<_repo, _fsWatcher, _updating, _updateDelay, _cache, timers, tasks, gen>>
       ELSE /\ _cache' = [_cache EXCEPT !.counts = countsGet(CountQueryKey(q))]
            /\ IF CountHit(CountQueryKey(q))
               THEN /\ ret' = Ret("getCommitsCount", repo, q, "", FALSE,
                                  LRUPeek(_cache.counts, CountQueryKey(q)))
                    /\ UNCHANGED tasks
               ELSE /\ Cardinality(tasks) < MaxTasks
                    /\ tasks' = tasks \cup {Task(NewTaskId, "count", repo, "fetch", q, gen)}
                    /\ ret' = NoRet
            /\ UNCHANGED <<_repo, _fsWatcher, _updating, _updateDelay, timers, gen>>

\* The live fetch of a suspended getCommitsCount resolves: lines 164-166.
CountFetched(t) ==
    /\ Ready
    /\ t \in tasks /\ t.type = "count"
    /\ \E g \in t.g0..gen :
         LET result == Val(t.repo, g, SrcCount(t.repo, t.q.f.branch, t.q.f.author, g))
         IN  /\ _cache' = [_cache EXCEPT !.counts =
                               countsSet(_cache.counts, CountQueryKey(t.q), result)]
             /\ ret' = Ret("getCommitsCount", t.repo, t.q, "", TRUE, result)
    /\ tasks' = tasks \ {t}
    /\ UNCHANGED <<_repo, _fsWatcher, _updating, _updateDelay, timers, gen>>

(***************************************************************************)
(* Query gate: branch and neighbour commits                                *)
(***************************************************************************)
getCurrentBranch(repo) ==
    /\ Ready
    /\ ret' = IF repo = Undefined
              THEN Ret("getCurrentBranch", repo, NoQuery, "", FALSE, Val(Undefined, 0, ""))
              ELSE IF _useCache(repo)
              THEN Ret("getCurrentBranch", repo, NoQuery, "", FALSE, _cache.branch)
              ELSE Ret("getCurrentBranch", repo, NoQuery, "", TRUE,
                       Val(repo, gen, SrcBranch(repo, gen)))
    /\ UNCHANGED <<_repo, _fsWatcher, _updating, _updateDelay, _cache, timers, tasks, gen>>

\* Array.prototype.indexOf: the first 0-based index of ref from position i on, or -1
RECURSIVE indexFrom(_, _, _)
indexFrom(commits, ref, i) ==
    IF i > Len(commits) THEN -1
    ELSE IF commits[i] = ref THEN i - 1
    ELSE indexFrom(commits, ref, i + 1)

indexOf(commits, ref) == indexFrom(commits, ref, 1)

\* NextCommitOf taking the neighbour at the following index.
NextCommitOfFollowing(commits, ref) ==
    LET index == indexOf(commits, ref)
    IN  IF index >= 0 /\ index + 1 < Len(commits) THEN commits[index + 2] ELSE ""

\* Lines 183-184; commits[j] of the code is commits[j + 1] here.
NextCommitOf(commits, ref) ==
    LET index == indexOf(commits, ref)
    IN  IF index > 0 THEN commits[index] ELSE ""

\* Lines 193-194
PreviousCommitOf(commits, ref) ==
    LET index == indexOf(commits, ref)
    IN  IF index >= 0 /\ index + 1 < Len(commits) THEN commits[index + 2] ELSE ""

\* NeighborCommitsOf with the two components exchanged.
NeighborCommitsOfSwapped(commits, ref) ==
    LET index == indexOf(commits, ref)
    IN  <<index > 0, index >= 0 /\ index + 1 < Len(commits)>>

\* Lines 204-205
NeighborCommitsOf(commits, ref) ==
    LET index == indexOf(commits, ref)
    IN  <<index >= 0 /\ index + 1 < Len(commits), index > 0>>

\* this._useCache(repo.root) ? this._cache.commits : await this._gitService.getCommits(repo)
CommitsFor(repo) == IF _useCache(repo) THEN _cache.commits.v ELSE SrcCommits(repo, gen)

getNextCommit(repo, ref) ==
    /\ Ready
    /\ ret' = IF repo = Undefined
              THEN Ret("getNextCommit", repo, NoQuery, ref, FALSE, "")
              ELSE Ret("getNextCommit", repo, NoQuery, ref, ~_useCache(repo),
                       NextCommitOf(CommitsFor(repo), ref))
    /\ UNCHANGED <<_repo, _fsWatcher, _updating, _updateDelay, _cache, timers, tasks, gen>>

getPreviousCommit(repo, ref) ==
    /\ Ready
    /\ ret' = IF repo = Undefined
              THEN Ret("getPreviousCommit", repo, NoQuery, ref, FALSE, "")
              ELSE Ret("getPreviousCommit", repo, NoQuery, ref, ~_useCache(repo),
                       PreviousCommitOf(CommitsFor(repo), ref))
    /\ UNCHANGED <<_repo, _fsWatcher, _updating, _updateDelay, _cache, timers, tasks, gen>>

hasNeighborCommits(repo, ref) ==
    /\ Ready
    /\ ret' = IF repo = Undefined
              THEN Ret("hasNeighborCommits", repo, NoQuery, ref, FALSE, <<FALSE, FALSE>>)
              ELSE Ret("hasNeighborCommits", repo, NoQuery, ref, ~_useCache(repo),
                       NeighborCommitsOf(CommitsFor(repo), ref))
    /\ UNCHANGED <<_repo, _fsWatcher, _updating, _updateDelay, _cache, timers, tasks, gen>>

(***************************************************************************)
(* Inputs of the queries                                                   *)
(***************************************************************************)
Unfiltered == Filter("main", None, None, NoLine, None)
ByAuthor == Filter("main", None, None, NoLine, Some("me"))

\* The queries of the scheduling specification: filtered by author, so that
\* their keys are written by the queries themselves and never by a reload.
SpecLogQueries == {Query(0, 1, ByAuthor)}
SpecCountQueries == {Query(0, 0, ByAuthor)}
SpecRefs == {"a1"}

(***************************************************************************)
(* Construction                                                            *)
(***************************************************************************)
\* new Dataloader(): no repository, or updateRepo(repos[0]) when the service
\* knows exactly one.
Init ==
    /\ gen = 0
    /\ tasks = {}
    /\ ret = NoRet
    /\ _cache = clear
    /\ \/ /\ _repo = Undefined /\ _fsWatcher = Undefined
          /\ _updating = FALSE /\ _updateDelay = 0 /\ timers = {}
       \/ \E r \in Repos :
            /\ _repo = r /\ _fsWatcher = r
            /\ _updating = TRUE
            /\ timers = Rearm({}, 0, r).timers
            /\ _updateDelay = Rearm({}, 0, r).id

Next ==
    \/ \E r \in Repos : updateRepo(r)
    \/ FsEvent(FALSE)
    \/ \E t \in timers : TimerFire(t)
    \/ \E t \in tasks : ReloadBranch(t)
    \/ \E t \in tasks : ReloadComplete(t)
    \/ \E r \in Repos, q \in SpecLogQueries : getLogEntries(r, q)
    \/ \E t \in tasks : LogFetched(t)
    \/ \E t \in tasks : WarmComplete(t)
    \/ \E r \in Repos, q \in SpecCountQueries : getCommitsCount(r, q)
    \/ \E t \in tasks : CountFetched(t)
    \/ \E r \in Repos : getCurrentBranch(r)
    \/ \E r \in Repos, ref \in SpecRefs : getNextCommit(r, ref)
    \/ \E r \in Repos, ref \in SpecRefs : getPreviousCommit(r, ref)
    \/ \E r \in Repos, ref \in SpecRefs : hasNeighborCommits(r, ref)
    \/ Return

\* The scheduler, the repository switch and the gate over two repositories
\* whose content does not change.
Spec == Init /\ [][Next]_vars

(***************************************************************************)
(* Properties of the refresh scheduler and of the repository switch        *)
(***************************************************************************)
QueryOps == {"getLogEntries", "getCommitsCount", "getCurrentBranch",
             "getNextCommit", "getPreviousCommit", "hasNeighborCommits"}

\* A bulk reload of the active repository is scheduled and not completed:
\* its quiet-period timer is armed, or its fetches are in flight.
ReloadScheduled ==
    \/ \E t \in timers : t.repo = _repo
    \/ \E t \in tasks : t.type = "reload" /\ t.repo = _repo

\* C1 (staleness masking): whenever a bulk reload of the active repository is
\* scheduled and not yet completed, _useCache is false for the active
\* repository, and a query for it that returns has called the live source.
C1_StalenessMasking ==
    (_repo # Undefined /\ ReloadScheduled) =>
        /\ ~_useCache(_repo)
        /\ (ret.op \in QueryOps /\ ret.repo = _repo) => ret.live

\* The repositories the values held by the cache were fetched from.
CacheSources ==
    {_cache.branch.src, _cache.commits.src}
    \cup {_cache.logEntries[i].v.src : i \in 1..Len(_cache.logEntries)}
    \cup {_cache.counts[i].v.src : i \in 1..Len(_cache.counts)}

\* C2 (cache exclusivity): every value the cache holds was fetched from the
\* active repository; no task started for another repository writes its
\* value into the cache.
C2_CacheExclusivity == CacheSources \subseteq {_repo, Undefined}

\* Task t is resumed for the last time in this step.
Completes(t) == t \in tasks /\ \A u \in tasks' : u.id # t.id

\* C3 (switch isolation): a bulk reload that was in flight when updateRepo
\* switched the active repository modifies no cache field and does not
\* change the refresh flag when it completes.
C3_SwitchIsolation ==
    [][\A t \in tasks :
          (t.type = "reload" /\ t.pc = "all" /\ t.switched /\ Completes(t))
              => (_cache' = _cache /\ _updating' = _updating)]_vars

\* The bulk reloads a step starts.
ReloadsStarted == {u \in tasks' : u.type = "reload" /\ \A t \in tasks : t.id # u.id}

\* C4 (debounce collapse): every notification cancels the outstanding timer
\* and re-arms it, so at most one quiet-period timer is armed however many
\* notifications arrived; a bulk reload starts only when that timer fires,
\* one reload per firing, and the firing leaves no timer armed: N
\* notifications inside the quiet period start one reload, not N.
C4_DebounceCollapse ==
    /\ [](Cardinality(timers) <= 1)
    /\ [](\A t \in timers : t.id = _updateDelay)
    /\ [][/\ Cardinality(ReloadsStarted) <= 1
          /\ ReloadsStarted # {} =>
                /\ Cardinality(timers) = 1 /\ timers' = {}
                /\ \A u \in ReloadsStarted : \A t \in timers : u.repo = t.repo]_vars

\* Two or more notifications have arrived inside one quiet period: one timer
\* stands for them and none of them has started a reload.
C4_Witness ==
    /\ \E t \in timers : t.burst >= 2 /\ t.repo = _repo
    /\ Cardinality(timers) = 1
    /\ ~ \E t \in tasks : t.type = "reload"

(***************************************************************************)
(* The query gate over one repository                                      *)
(***************************************************************************)
\* Windows below, at and beyond a full page, from the first entry and from
\* the second.
GateWindows == {<<0, 1>>, <<0, logEntriesCount>>, <<1, logEntriesCount - 1>>,
                <<1, logEntriesCount>>}
GateLogQueries == {Query(w[1], w[2], f) : w \in GateWindows, f \in {Unfiltered, ByAuthor}}
GateCountQueries == {Query(0, 0, Unfiltered), Query(0, 0, ByAuthor)}

\* Constructed with the one repository the service knows.
InitGate == Init /\ _repo # Undefined

NextGate ==
    \/ FsEvent(FALSE)
    \/ \E t \in timers : TimerFire(t)
    \/ \E t \in tasks : ReloadBranch(t)
    \/ \E t \in tasks : ReloadComplete(t)
    \/ \E q \in GateLogQueries : getLogEntries(_repo, q)
    \/ \E t \in tasks : LogFetched(t)
    \/ \E t \in tasks : WarmComplete(t)
    \/ \E q \in GateCountQueries : getCommitsCount(_repo, q)
    \/ \E t \in tasks : CountFetched(t)
    \/ Return

\* The gate of the active repository, with change notifications and reloads
\* and no repository switch.
SpecGate == InitGate /\ [][NextGate]_vars

(***************************************************************************)
(* Properties of the query gate                                            *)
(***************************************************************************)
\* The step is a call getLogEntries(r, q) that suspends on its live fetch.
LogCallFetches(r, q) ==
    \E u \in tasks' : /\ u.type = "log" /\ u.repo = r /\ u.q = q
                      /\ \A t \in tasks : t.id # u.id

\* The step is a call getLogEntries(r, q) that returns val with no live call.
LogCallReturnsCached(r, q, val) ==
    /\ tasks' = tasks
    /\ ret'.op = "getLogEntries" /\ ret'.repo = r /\ ret'.q = q
    /\ ~ret'.live /\ ret'.val = val

\* The step is a call getLogEntries(r, q).
LogCalled(r, q) ==
    /\ Ready
    /\ \/ ret'.op = "getLogEntries" /\ ret'.repo = r /\ ret'.q = q /\ tasks' = tasks
       \/ LogCallFetches(r, q)

\* The entry the cache holds for the key of q.
EntryOf(q) == LRUPeek(_cache.logEntries, QueryKey(q))

\* C5 (read-through coverage): with the cache usable and an entry of length
\* L >= logEntriesCount stored for the query's key, getLogEntries returns the
\* stored slice with no live call whenever start + count <= L (start + count
\* = L included) and calls the live source when start + count > L.
C5_ReadThroughCoverage ==
    [][\A r \in Repos, q \in GateLogQueries :
          (/\ LogCalled(r, q) /\ _useCache(r)
           /\ LRUHas(_cache.logEntries, QueryKey(q))
           /\ EntryOf(q).len >= logEntriesCount)
          => IF q.start + q.count <= EntryOf(q).len
             THEN LogCallReturnsCached(r, q, slice(EntryOf(q), q.start, q.start + q.count))
             ELSE LogCallFetches(r, q)]_vars

\* C6 (complete-history short-circuit): with the cache usable and an entry
\* shorter than logEntriesCount (length 0 included) stored for the query's
\* key, getLogEntries returns the stored slice [start, start+count) and makes
\* no live call, whatever start and count are.
C6_CompleteHistory ==
    [][\A r \in Repos, q \in GateLogQueries :
          (/\ LogCalled(r, q) /\ _useCache(r)
           /\ LRUHas(_cache.logEntries, QueryKey(q))
           /\ EntryOf(q).len < logEntriesCount)
          => LogCallReturnsCached(r, q, slice(EntryOf(q), q.start, q.start + q.count))]_vars

\* getLogEntries has just answered, from an empty stored entry, a window
\* that reaches beyond a full page.
C6_Witness ==
    /\ ret.op = "getLogEntries" /\ ~ret.live /\ ret.repo = _repo
    /\ LRUHas(_cache.logEntries, QueryKey(ret.q))
    /\ EntryOf(ret.q).len = 0
    /\ ret.q.start + ret.q.count > logEntriesCount
    /\ ret.val.len = 0

\* The step is a call getCommitsCount(r, q) that suspends on its live fetch.
CountCallFetches(r, q) ==
    \E u \in tasks' : /\ u.type = "count" /\ u.repo = r /\ u.q = q
                      /\ \A t \in tasks : t.id # u.id

\* The step is a call getCommitsCount(r, q).
CountCalled(r, q) ==
    /\ Ready
    /\ \/ ret'.op = "getCommitsCount" /\ ret'.repo = r /\ ret'.q = q /\ tasks' = tasks
       \/ CountCallFetches(r, q)

\* C7 (getCommitsCount is cache-or-fetch-and-store for every count): a count
\* stored under (branch, author) by a call that missed is returned, with no
\* live call, by every later call with the same (branch, author) made while
\* the cache is usable and still holds the entry, whatever the count is.
\* The key of ByAuthor is written by getCommitsCount alone.
C7_CountCached ==
    [][\A r \in Repos :
          (/\ CountCalled(r, Query(0, 0, ByAuthor)) /\ _useCache(r)
           /\ LRUHas(_cache.counts, CountQueryKey(Query(0, 0, ByAuthor))))
          => /\ tasks' = tasks
             /\ ~ret'.live
             /\ ret'.val = LRUPeek(_cache.counts, CountQueryKey(Query(0, 0, ByAuthor)))]_vars

(***************************************************************************)
(* Neighbour lookups over every short commit list                          *)
(***************************************************************************)
CommitIds == {"c0", "c1", "c2"}
NeighborRefs == CommitIds \cup {"a1", "zz"}

RECURSIVE SeqsUpTo(_, _)
SeqsUpTo(S, n) ==
    IF n = 0 THEN {<<>>}
    ELSE LET shorter == SeqsUpTo(S, n - 1)
         IN  shorter \cup {Append(cs, x) : cs \in {c \in shorter : Len(c) = n - 1}, x \in S}

\* Repository A is active and a reload has completed; getCommits answered
\* with any list of at most MaxCommits ids.
InitNeighbor ==
    /\ _repo = "A" /\ _fsWatcher = "A"
    /\ _updating = FALSE /\ _updateDelay = 0 /\ timers = {}
    /\ tasks = {} /\ gen = 0 /\ ret = NoRet
    /\ \E cs \in SeqsUpTo(CommitIds, MaxCommits) :
         _cache = [ReloadWrite(clear, "A", Val("A", 0, SrcBranch("A", 0)), 0)
                       EXCEPT !.commits = Val("A", 0, cs)]

NextNeighbor ==
    \/ FsEvent(FALSE)
    \/ \E t \in timers : TimerFire(t)
    \/ \E t \in tasks : ReloadBranch(t)
    \/ \E t \in tasks : ReloadComplete(t)
    \/ \E r \in Repos, ref \in NeighborRefs : getNextCommit(r, ref)
    \/ \E r \in Repos, ref \in NeighborRefs : getPreviousCommit(r, ref)
    \/ \E r \in Repos, ref \in NeighborRefs : hasNeighborCommits(r, ref)
    \/ Return

SpecNeighbor == InitNeighbor /\ [][NextNeighbor]_vars

\* The commit list the call that returned ret looked ref up in.
UsedCommits == IF ret.live THEN SrcCommits(ret.repo, gen) ELSE _cache.commits.v

\* The first 0-based index of ref in cs, -1 when cs does not hold it.
FirstIndex(cs, ref) ==
    IF \E i \in 1..Len(cs) : cs[i] = ref
    THEN (CHOOSE i \in 1..Len(cs) : cs[i] = ref /\ \A j \in 1..(i - 1) : cs[j] # ref) - 1
    ELSE -1

\* cs[i - 1] and cs[i + 1] of the claim, for the 0-based i
Newer(cs, i) == IF i > 0 THEN cs[i] ELSE ""
Older(cs, i) == IF i >= 0 /\ i + 1 < Len(cs) THEN cs[i + 2] ELSE ""

\* C8 (neighbour lookup): with i the first index of ref in the commit list
\* cs, getNextCommit returns cs[i-1] if i > 0 and '' otherwise,
\* getPreviousCommit returns cs[i+1] if i >= 0 and i+1 < len(cs) and ''
\* otherwise, hasNeighborCommits returns (previous is non-empty, next is
\* non-empty), and a ref that cs does not hold gives '', '' and (false, false).
C8_NeighborLookup ==
    LET cs == UsedCommits
        i  == FirstIndex(cs, ret.ref)
    IN  /\ ret.op = "getNextCommit" => ret.val = Newer(cs, i)
        /\ ret.op = "getPreviousCommit" => ret.val = Older(cs, i)
        /\ ret.op = "hasNeighborCommits" => ret.val = <<Older(cs, i) # "", Newer(cs, i) # "">>
        /\ (i = -1 /\ ret.op \in {"getNextCommit", "getPreviousCommit"}) => ret.val = ""
        /\ (i = -1 /\ ret.op = "hasNeighborCommits") => ret.val = <<FALSE, FALSE>>

\* hasNeighborCommits has answered for a commit that has an older neighbour
\* and no newer one, looked up in a cached list that holds it twice.
C8_Witness ==
    /\ ret.op = "hasNeighborCommits" /\ ~ret.live
    /\ ret.val = <<TRUE, FALSE>>
    /\ Cardinality({j \in 1..Len(_cache.commits.v) : _cache.commits.v[j] = ret.ref}) = 2

\* C9 as stated (neighbour lookup end cases): in a list of at least two
\* commits, getPreviousCommit of the newest commit (index 0) returns '' and
\* getNextCommit of the oldest commit (last index) returns ''.
C9_EndCasesAsStated ==
    LET cs == UsedCommits
    IN  Len(cs) >= 2 =>
          /\ (ret.op = "getPreviousCommit" /\ ret.ref = cs[1]) => ret.val = ""
          /\ (ret.op = "getNextCommit" /\ ret.ref = cs[Len(cs)]) => ret.val = ""

\* C9 as amended: in a list of at least two commits, getNextCommit of the
\* newest commit (index 0) returns '' and getPreviousCommit of the oldest
\* commit (the one first found at the last index) returns ''.
C9_EndCases ==
    LET cs == UsedCommits
    IN  Len(cs) >= 2 =>
          /\ (ret.op = "getNextCommit" /\ ret.ref = cs[1]) => ret.val = ""
          /\ (ret.op = "getPreviousCommit" /\ FirstIndex(cs, ret.ref) = Len(cs) - 1)
                => ret.val = ""

\* getPreviousCommit has answered '' for the oldest of three cached commits.
C9_Witness ==
    /\ ret.op = "getPreviousCommit" /\ ~ret.live
    /\ Len(_cache.commits.v) = 3
    /\ FirstIndex(_cache.commits.v, ret.ref) = 2
    /\ ret.val = ""

(***************************************************************************)
(* The two LRU caches at capacity.  Repository A is active with a          *)
(* completed reload; PrefilledLogs line histories and PrefilledCounts      *)
(* author counts have already been queried, one after the other, which     *)
(* leaves one free slot in each cache.  The calls read the reload's keys   *)
(* again and bring two more keys to each cache.                            *)
(***************************************************************************)
PrefilledLogs == 3
PrefilledCounts == 98

ByLine(n) == Filter("main", None, None, Some(n), None)
ByUser(n) == Filter("main", None, None, NoLine, Some("u" \o ToString(n)))
LineQuery(n) == Query(0, logEntriesCount, ByLine(n))
UserQuery(n) == Query(0, 0, ByUser(n))

LRULogQueries ==
    {Query(0, 1, Unfiltered), LineQuery(PrefilledLogs + 1), LineQuery(PrefilledLogs + 2)}
LRUCountQueries ==
    {Query(0, 0, Unfiltered), UserQuery(PrefilledCounts + 1), UserQuery(PrefilledCounts + 2)}

\* The cache after the first calls have fetched and stored their answers:
\* sets of new keys that stay below the capacities.
Prefill(c) ==
    [c EXCEPT
       !.logEntries = @ \o [i \in 1..PrefilledLogs |->
                               [k |-> QueryKey(LineQuery(i)),
                                v |-> SrcLogEntries("A", 0, ByLine(i), 0, logEntriesCount)]],
       !.counts = @ \o [i \in 1..PrefilledCounts |->
                           [k |-> CountQueryKey(UserQuery(i)),
                            v |-> Val("A", 0, SrcCount("A", "main", ByUser(i).author, 0))]]]

InitLRU ==
    /\ _repo = "A" /\ _fsWatcher = "A"
    /\ _updating = FALSE /\ _updateDelay = 0 /\ timers = {}
    /\ tasks = {} /\ gen = 0 /\ ret = NoRet
    /\ _cache = Prefill(ReloadWrite(clear, "A", Val("A", 0, SrcBranch("A", 0)), 0))

NextLRU ==
    \/ FsEvent(FALSE)
    \/ \E t \in timers : TimerFire(t)
    \/ \E t \in tasks : ReloadBranch(t)
    \/ \E t \in tasks : ReloadComplete(t)
    \/ \E q \in LRULogQueries : getLogEntries(_repo, q)
    \/ \E t \in tasks : LogFetched(t)
    \/ \E t \in tasks : WarmComplete(t)
    \/ \E q \in LRUCountQueries : getCommitsCount(_repo, q)
    \/ \E t \in tasks : CountFetched(t)
    \/ Return

SpecLRU == InitLRU /\ [][NextLRU]_vars

\* The keys of an LRU cache, least recently used first.
KeySeq(c) == [i \in 1..Len(c) |-> c[i].k]
Without(ks, key) == SelectSeq(ks, LAMBDA k : k # key)

\* What one step may do to an LRU cache of capacity max: nothing to its order,
\* or make one key the most recent one; a key the cache did not hold takes a
\* free slot, or the place of the least recently used key when there is none.
LRUStep(c, d, max) ==
    LET ks == KeySeq(c)
        kd == KeySeq(d)
    IN  \/ kd = ks
        \/ /\ kd # <<>>
           /\ LET k == kd[Len(kd)]
              IN  IF LRUHas(c, k) THEN Without(kd, k) = Without(ks, k)
                  ELSE IF Len(c) < max THEN Without(kd, k) = ks
                  ELSE /\ Without(kd, k) = Tail(ks)
                       /\ ks[1] # ks[Len(ks)]

\* The key a call answered from the cache is the most recently used one.
ReadIsMostRecent ==
    /\ (ret.op = "getLogEntries" /\ ~ret.live) =>
           _cache.logEntries[Len(_cache.logEntries)].k = QueryKey(ret.q)
    /\ (ret.op = "getCommitsCount" /\ ~ret.live) =>
           _cache.counts[Len(_cache.counts)].k = CountQueryKey(ret.q)

\* C10 (LRU bound and order): logEntries never holds more than 5 keys and
\* counts never more than 100; a key that a call reads from a cache becomes
\* its most recently used key; every step keeps the order of the keys it
\* does not touch, and a set of a new key at capacity evicts exactly the
\* least recently used key, never the most recently used one.
C10_LRUBoundAndOrder ==
    /\ [](/\ Len(_cache.logEntries) <= logEntriesMax
          /\ Len(_cache.counts) <= countsMax
          /\ Cardinality(LRUKeys(_cache.logEntries)) = Len(_cache.logEntries)
          /\ Cardinality(LRUKeys(_cache.counts)) = Len(_cache.counts)
          /\ ReadIsMostRecent)
    /\ [][/\ LRUStep(_cache.logEntries, _cache'.logEntries, logEntriesMax)
          /\ LRUStep(_cache.counts, _cache'.counts, countsMax)]_vars

\* Both caches are full and each has evicted a key.  The two keys of the
\* reload were the least recently used ones: counts, where that key was not
\* read again, has evicted it; logEntries, where it was read again before the
\* new keys came, has evicted the next key instead and still answers from it.
C10_Witness ==
    /\ Len(_cache.logEntries) = logEntriesMax
    /\ Len(_cache.counts) = countsMax
    /\ ~LRUHas(_cache.counts, CountQueryKey(Query(0, 0, Unfiltered)))
    /\ LRUHas(_cache.counts, CountQueryKey(UserQuery(PrefilledCounts + 2)))
    /\ ~LRUHas(_cache.logEntries, QueryKey(LineQuery(1)))
    /\ LRUHas(_cache.logEntries, QueryKey(LineQuery(PrefilledLogs + 2)))
    /\ ret.op = "getLogEntries" /\ ~ret.live /\ ret.q = Query(0, 1, Unfiltered)

(***************************************************************************)
(* The key builders over tuples whose strings may hold the separator       *)
(***************************************************************************)
\* An absent optional boolean (stash?: boolean)
NoStash == [some |-> FALSE, v |-> FALSE]

KeyStrings == {"", "a", ",", "a,", ",a"}
KeyFilters ==
    {Filter(b, st, fl, ln, au) :
        b \in {"m", "m,"},
        st \in {NoStash, Some(FALSE), Some(TRUE)},
        fl \in {None, Some(""), Some("f"), Some(",")},
        ln \in {NoLine, Some(1)},
        au \in {None, Some(""), Some("a")}}

\* this._cache.countKey(branch, author)
countKeyCall(branch, author) ==
    /\ Ready
    /\ ret' = Ret("countKey", Undefined,
                  Query(0, 0, Filter(branch, NoStash, None, NoLine, Some(author))),
                  "", FALSE, countKey(branch, author))
    /\ UNCHANGED <<_repo, _fsWatcher, _updating, _updateDelay, _cache, timers, tasks, gen>>

\* this._cache.logEntryKey(branch, stash, file, line, author)
logEntryKeyCall(f) ==
    /\ Ready
    /\ ret' = Ret("logEntryKey", Undefined, Query(0, 0, f), "", FALSE,
                  logEntryKey(f.branch, f.isStash, f.file, f.line, f.author))
    /\ UNCHANGED <<_repo, _fsWatcher, _updating, _updateDelay, _cache, timers, tasks, gen>>

InitKeys == Init /\ _repo = Undefined

NextKeys ==
    \/ \E b \in KeyStrings, a \in KeyStrings : countKeyCall(b, a)
    \/ \E f \in KeyFilters : logEntryKeyCall(f)
    \/ Return

SpecKeys == InitKeys /\ [][NextKeys]_vars

\* C11 (key stability): the key a builder has returned for a tuple is the key
\* it returns for that tuple every time, and no other tuple of its family
\* (strings with the separator and absent optional fields included) has it.
C11_KeyStability ==
    /\ ret.op = "countKey" =>
         /\ ret.val = countKey(ret.q.f.branch, ret.q.f.author.v)
         /\ \A b \in KeyStrings, a \in KeyStrings :
               <<b, a>> # <<ret.q.f.branch, ret.q.f.author.v>> => countKey(b, a) # ret.val
    /\ ret.op = "logEntryKey" =>
         /\ ret.val = logEntryKey(ret.q.f.branch, ret.q.f.isStash, ret.q.f.file,
                                  ret.q.f.line, ret.q.f.author)
         /\ \A f \in KeyFilters :
               f # ret.q.f =>
                  logEntryKey(f.branch, f.isStash, f.file, f.line, f.author) # ret.val

(***************************************************************************)
(* Properties of updateRepo                                                *)
(***************************************************************************)
\* C12 (re-attach is a no-op): updateRepo(repo) with the root of the active
\* repository leaves the active repository, the watcher, the pending timer,
\* the refresh flag and the four cache fields as they are and starts no
\* reload.
C12_SameRootNoOp ==
    [][\A r \in Repos :
          (Ready /\ _repo = r /\ ret'.op = "none" /\ updateRepo(r))
          => UNCHANGED <<_repo, _fsWatcher, _updating, _updateDelay, _cache, timers, tasks>>]_vars

\* updateRepo can be called with the root of the active repository while a
\* timer is pending, a reload is in flight and the cache holds a fetched page:
\* the call leaves this state as it is.
C12_Witness ==
    /\ Ready /\ _repo \in Repos
    /\ timers # {} /\ _updating
    /\ \E t \in tasks : t.type = "reload" /\ t.repo = _repo
    /\ _cache.logEntries # <<>>

\* C13 (switch): updateRepo(B) with another root than the active one, in one
\* step, replaces the watcher, cancels the timer that has not fired, empties
\* the four cache fields, makes B active and arms the one timer of B's
\* reload with the cache not usable; no timer of another repository than the
\* active one is ever armed, and the cache becomes usable again only when a
\* reload started after the switch completes.
C13_Switch ==
    /\ [](\A t \in timers : t.repo = _repo)
    /\ [][\A b \in Repos :
             (Ready /\ _repo # b /\ ret'.op = "none" /\ updateRepo(b))
             => /\ _repo' = b /\ _fsWatcher' = b
                /\ _cache' = clear
                /\ _updating' /\ ~_useCache(b)'
                /\ Cardinality(timers') = 1
                /\ \A t \in timers' : t.repo = b /\ t.id = _updateDelay'
                /\ ReloadsStarted = {}]_vars
    /\ [][(_updating /\ ~_updating')
             => \E t \in tasks : t.type = "reload" /\ ~t.switched /\ Completes(t)]_vars

(***************************************************************************)
(* The six queries called without a repository                             *)
(***************************************************************************)
AbsentLogQueries == {Query(0, 1, Unfiltered), Query(0, logEntriesCount, ByAuthor)}
AbsentCountQueries == {Query(0, 0, Unfiltered), Query(0, 0, ByAuthor)}

NextAbsent ==
    \/ \E r \in Repos : updateRepo(r)
    \/ FsEvent(FALSE)
    \/ \E t \in timers : TimerFire(t)
    \/ \E t \in tasks : ReloadBranch(t)
    \/ \E t \in tasks : ReloadComplete(t)
    \/ \E q \in AbsentLogQueries : getLogEntries(Undefined, q)
    \/ \E q \in AbsentCountQueries : getCommitsCount(Undefined, q)
    \/ getCurrentBranch(Undefined)
    \/ \E ref \in SpecRefs : getNextCommit(Undefined, ref)
    \/ \E ref \in SpecRefs : getPreviousCommit(Undefined, ref)
    \/ \E ref \in SpecRefs : hasNeighborCommits(Undefined, ref)
    \/ Return

SpecAbsent == Init /\ [][NextAbsent]_vars

\* The call that returned ret was made without a repository.
AbsentCall == ret.op \in QueryOps /\ ret.repo = Undefined

\* C14 (absent repository): each of the six queries, called without a
\* repository, returns its default (an empty list, 0, '', '', '', (false,
\* false)) without failing, calls no live source and changes no state.
C14_AbsentRepository ==
    /\ [](AbsentCall =>
            /\ ~ret.live
            /\ ret.op = "getLogEntries" => (ret.val.src # TypeError /\ ret.val.len = 0)
            /\ ret.op = "getCommitsCount" => (ret.val.src # TypeError /\ ret.val.v = 0)
            /\ ret.op = "getCurrentBranch" => ret.val.v = ""
            /\ ret.op \in {"getNextCommit", "getPreviousCommit"} => ret.val = ""
            /\ ret.op = "hasNeighborCommits" => ret.val = <<FALSE, FALSE>>)
    /\ [][AbsentCall' =>
            UNCHANGED <<_repo, _fsWatcher, _updating, _updateDelay, _cache, timers, tasks, gen>>]_vars

(***************************************************************************)
(* Live fetches that fail                                                  *)
(***************************************************************************)
\* An awaited fetch of the reload callback rejects (line 218 or 219): the
\* callback ends there, before the repository check and the writes.
ReloadFail(t) ==
    /\ Ready
    /\ t \in tasks /\ t.type = "reload"
    /\ tasks' = tasks \ {t}
    /\ ret' = NoRet
    /\ UNCHANGED <<_repo, _fsWatcher, _updating, _updateDelay, _cache, timers, gen>>

\* The fetch of the warming callback rejects (line 127): the callback ends
\* before its set.
WarmFail(t) ==
    /\ Ready
    /\ t \in tasks /\ t.type = "warm"
    /\ tasks' = tasks \ {t}
    /\ ret' = NoRet
    /\ UNCHANGED <<_repo, _fsWatcher, _updating, _updateDelay, _cache, timers, gen>>

NextFail ==
    \/ \E r \in Repos : updateRepo(r)
    \/ FsEvent(FALSE)
    \/ \E t \in timers : TimerFire(t)
    \/ \E t \in tasks : ReloadBranch(t)
    \/ \E t \in tasks : ReloadComplete(t)
    \/ \E t \in tasks : ReloadFail(t)
    \/ \E r \in Repos, q \in SpecLogQueries : getLogEntries(r, q)
    \/ \E t \in tasks : LogFetched(t)
    \/ \E t \in tasks : WarmComplete(t)
    \/ \E t \in tasks : WarmFail(t)
    \/ \E r \in Repos, q \in SpecCountQueries : getCommitsCount(r, q)
    \/ \E t \in tasks : CountFetched(t)
    \/ Return

SpecFail == Init /\ [][NextFail]_vars

\* The step completes a reload of the active repository with its writes.
ReloadSucceeds ==
    \E t \in tasks : /\ t.type = "reload" /\ t.pc = "all" /\ t.repo = _repo
                     /\ ReloadComplete(t)

\* C15 (failed background work): a reload whose live fetch fails modifies no
\* cache field, and after the failure of a reload of the active repository
\* the cache is not usable, so every read goes to the live source, until a
\* reload completes with success, the only step that makes the cache usable
\* again; a warming fetch that fails writes no logEntries entry.
C15_FailureFallsBackToLive ==
    [][/\ \A t \in tasks :
            (ret'.op = "none" /\ ReloadFail(t))
            => /\ _cache' = _cache
               /\ t.repo = _repo => ~_useCache(_repo)'
       /\ (ret'.op = "none" /\ _updating /\ ~_updating') => ReloadSucceeds
       /\ \A t \in tasks :
            (ret'.op = "none" /\ WarmFail(t)) => _cache'.logEntries = _cache.logEntries]_vars

(***************************************************************************)
(* Reloads and the activation they were started for                        *)
(***************************************************************************)
\* The cache holds what reload t fetched: lines 231-234.
HoldsReloadOf(c, t) ==
    /\ c.branch = t.branch
    /\ c.commits.src = t.repo
    /\ LRUHas(c.counts, countKey(t.branch.v, ""))
    /\ LRUPeek(c.counts, countKey(t.branch.v, "")).src = t.repo
    /\ LRUHas(c.logEntries, logEntryKey(t.branch.v, None, None, NoLine, None))
    /\ LRUPeek(c.logEntries, logEntryKey(t.branch.v, None, None, NoLine, None)).src = t.repo

\* C16 (reload tied to its activation): a completing bulk reload writes its
\* branch, commits, count and first page and clears the refresh flag if the
\* active repository has not changed at any point since the reload started;
\* if updateRepo switched the active repository in between, also away and
\* back, it changes no cache field and leaves the refresh flag as it is.
C16_ReloadTiedToActivation ==
    [][\A t \in tasks :
          (ret'.op = "none" /\ t.type = "reload" /\ t.pc = "all" /\ Completes(t))
          => IF t.switched
             THEN _cache' = _cache /\ _updating' = _updating
             ELSE HoldsReloadOf(_cache', t) /\ ~_updating']_vars

(***************************************************************************)
(* The store rule of getLogEntries                                         *)
(***************************************************************************)
\* The step resumes the suspended getLogEntries call t with its live result.
LogResumes(t) ==
    /\ t \in tasks /\ t.type = "log"
    /\ ~ \E u \in tasks' : u.id = t.id /\ u.type = "log"
    /\ ret'.op = "getLogEntries" /\ ret'.live

\* The step leaves the warming fetch of call t behind.
WarmIssued(t) ==
    \E u \in tasks' : u.id = t.id /\ u.type = "warm" /\ u.q = t.q /\ u.repo = t.repo

LiveLogQueries == {Query(0, 1, Unfiltered)}
LiveCountQueries == {Query(0, 0, Unfiltered)}

NextLive ==
    \/ \E r \in Repos : updateRepo(r)
    \/ FsEvent(FALSE)
    \/ \E t \in timers : TimerFire(t)
    \/ \E t \in tasks : ReloadBranch(t)
    \/ \E t \in tasks : ReloadComplete(t)
    \/ \E r \in Repos, q \in LiveLogQueries : r = _repo /\ getLogEntries(r, q)
    \/ \E r \in Repos, q \in LiveCountQueries : r = _repo /\ getCommitsCount(r, q)
    \/ \E t \in tasks : CountFetched(t)
    \/ Return

SpecLive ==
    /\ Init /\ [][NextLive]_vars
    /\ SF_vars(\E t \in timers : TimerFire(t))
    /\ SF_vars(\E t \in tasks : ReloadBranch(t))
    /\ SF_vars(\E t \in tasks : ReloadComplete(t))
    /\ SF_vars(\E t \in tasks : CountFetched(t))
    /\ WF_vars(Return)

\* The step is a change notification or a switch of the active repository.
Disturbs ==
    /\ ret'.op = "none"
    /\ \/ FsEvent(FALSE)
       \/ \E r \in Repos : _repo # r /\ updateRepo(r)

\* No reload of the active repository is pending or running, the cache is
\* usable and holds a reload's branch, commits, count and first page.
Reloaded ==
    /\ _repo # Undefined
    /\ timers = {} /\ ~ \E t \in tasks : t.type = "reload"
    /\ _useCache(_repo)
    /\ _cache.branch.src = _repo /\ _cache.commits.src = _repo
    /\ LRUHas(_cache.counts, countKey(_cache.branch.v, ""))
    /\ LRUPeek(_cache.counts, countKey(_cache.branch.v, "")).src = _repo
    /\ LRUHas(_cache.logEntries, logEntryKey(_cache.branch.v, None, None, NoLine, None))
    /\ LRUPeek(_cache.logEntries, logEntryKey(_cache.branch.v, None, None, NoLine, None)).src = _repo

\* The unfiltered query that returned ret for the active repository was
\* answered from the cache.
ServedFromReload ==
    (/\ ret.op \in {"getLogEntries", "getCommitsCount"}
     /\ ret.repo = _repo /\ ret.q.f = Unfiltered) => ~ret.live

\* C18 (eventual usability): if from some point on no change notification
\* arrives and the active repository is not switched, then eventually the
\* timer has fired, the reload has completed and the cache stays usable
\* with the reload's branch, commits, count and first page; and the
\* unfiltered getLogEntries and getCommitsCount that return in such a state
\* are answered from those entries.
C18_EventualUsability ==
    /\ [](Reloaded => ServedFromReload)
    /\ (<>[][~Disturbs]_vars) => <>[](_repo # Undefined => Reloaded)

(***************************************************************************)
(* One repository whose content changes: every notification reports a     *)
(* change of what the source answers, at most MaxGen of them.              *)
(***************************************************************************)
NextFresh ==
    \/ FsEvent(TRUE)
    \/ \E t \in timers : TimerFire(t)
    \/ \E t \in tasks : ReloadBranch(t)
    \/ \E t \in tasks : ReloadComplete(t)
    \/ \E q \in SpecLogQueries : getLogEntries(_repo, q)
    \/ \E t \in tasks : LogFetched(t)
    \/ \E t \in tasks : WarmComplete(t)
    \/ \E q \in SpecCountQueries : getCommitsCount(_repo, q)
    \/ \E t \in tasks : CountFetched(t)
    \/ Return

SpecFresh == InitGate /\ [][NextFresh]_vars

\* C19 (freshness of served entries): a value that getCommitsCount or
\* getLogEntries returns from the cache, with no live call, was fetched after
\* the most recent change notification of the active repository: it is of
\* the generation that notification announced.
C19_ServedEntriesFresh ==
    (/\ ret.op \in {"getCommitsCount", "getLogEntries"}
     /\ ret.repo = _repo /\ ~ret.live)
    => ret.val.gen = gen

\* Every reload that was scheduled has completed.
ReloadsDone ==
    /\ _repo # Undefined
    /\ timers = {}
    /\ ~ \E t \in tasks : t.type = "reload"

\* C20 (latest reload wins): once the reloads of the active repository have
\* completed, in whatever order, the branch, the commits, the count and the
\* first page of the cache are those of the reload that started last, the
\* one that started after the last notification, and never those an
\* earlier-started reload fetched before it.
C20_LatestReloadWins ==
    ReloadsDone =>
        /\ _cache.branch.gen = gen
        /\ _cache.commits.gen = gen
        /\ LRUHas(_cache.counts, countKey(_cache.branch.v, ""))
        /\ LRUPeek(_cache.counts, countKey(_cache.branch.v, "")).gen = gen
        /\ LRUHas(_cache.logEntries, logEntryKey(_cache.branch.v, None, None, NoLine, None))
        /\ LRUPeek(_cache.logEntries,
                   logEntryKey(_cache.branch.v, None, None, NoLine, None)).gen = gen

====
